---- MODULE Spec2Model ----
(***************************************************************************)
(* A model of the treewalker library (src/src/treewalker/__init__.py):     *)
(* cursors (Walker and its subclasses) over a parsed JSON-like tree, the   *)
(* generators produced by array_values / object_values / object_items,    *)
(* the ObjectWalker context manager and the rendering of WalkerError.      *)
(*                                                                         *)
(* The state is the heap of walkers a client has obtained, the generators  *)
(* it holds, the stack of open `with` blocks, the propagating exception    *)
(* and the outcome of the last call.  A client performs any sequence of    *)
(* library calls; the first WalkerError unwinds the open `with` blocks and *)
(* is caught and rendered at top level (as in docs/example1.py).           *)
(***************************************************************************)
EXTENDS Integers, Sequences, FiniteSets, TLC

VARIABLES
    walkers,    \* heap of Walker objects, addressed 1..Len(walkers)
    gens,       \* heap of generator objects (array_values, object_values, object_items)
    scopes,     \* stack of ObjectWalker ids whose `with` block is open (innermost last)
    pc,         \* "ready" | "returned" | "raising" | "caught"
    exc,        \* the propagating / caught WalkerError, or NoExc
    rendered,   \* str(err) computed by the top-level handler, "" before
    last,       \* the library call that has just returned or raised, and its outcome
    trail,      \* history: per walker, the traversal steps that led to it
    lookups,    \* history: per walker, the keys looked up on it with w[key]
    orig,       \* history: per walker, the value it held when constructed
    defaults,   \* history: per walker constructed missing, the arguments of the
                \* default_to calls made on it
    unwound     \* history: the ObjectWalker ids whose block was left by an exception

vars == <<walkers, gens, scopes, pc, exc, rendered, last, trail, lookups, orig,
          defaults, unwound>>

----------------------------------------------------------------------------
(* Bounds of the model.                                                    *)

MaxWalkers == 3
MaxGens == 1
MaxDefaultTo == 2
MaxAnnotations == 1

----------------------------------------------------------------------------
(* Tree values: the Python values a parsed JSON document is made of, and   *)
(* the MissingValue marker.  A dict keeps its insertion order: keys and    *)
(* vals are parallel sequences.  A key is a sequence of characters, so     *)
(* that the regular expressions of WalkerInObject.context can be applied.  *)

None == [kind |-> "null"]
IntV(n) == [kind |-> "int", n |-> n]
StrV(s) == [kind |-> "str", s |-> s]
FloatV(f) == [kind |-> "float", f |-> f]
BoolV(b) == [kind |-> "bool", b |-> b]
ListV(items) == [kind |-> "list", items |-> items]
DictV(keys, vals) == [kind |-> "dict", keys |-> keys, vals |-> vals]
MissingValue == [kind |-> "missing"]

\* isinstance(obj, typ) for typ in str, int, float, bool, list, dict,
\* MissingValue: in Python bool is a subclass of int, so a Boolean is an
\* instance of int; None and MissingValue are instances of none of the others.
isinstance(obj, typ) ==
    \/ obj.kind = typ
    \/ typ = "int" /\ obj.kind = "bool"

\* key in dct
HasKey(dct, key) == \E i \in 1..Len(dct.keys) : dct.keys[i] = key

\* dct[key]
Lookup(dct, key) ==
    dct.vals[CHOOSE i \in 1..Len(dct.keys) : dct.keys[i] = key]

KeySet(dct) == {dct.keys[i] : i \in 1..Len(dct.keys)}

----------------------------------------------------------------------------
(* Strings.                                                                *)

RECURSIVE Join(_)
\* "".join(parts)
Join(parts) ==
    IF parts = <<>> THEN "" ELSE Head(parts) \o Join(Tail(parts))

RECURSIVE Reverse(_)
\* reversed(seq)
Reverse(seq) ==
    IF seq = <<>> THEN <<>> ELSE Reverse(Tail(seq)) \o <<Head(seq)>>

\* The characters the regular expression \w matches, among those the model uses.
WordChars ==
    {"a", "b", "c", "d", "e", "f", "g", "h", "i", "j", "k", "l", "m", "n",
     "o", "p", "q", "r", "s", "t", "u", "v", "w", "x", "y", "z", "_",
     "0", "1", "2", "3", "4", "5", "6", "7", "8", "9"}

\* re.fullmatch(r'\w+', key)
FullMatchWord(key) ==
    /\ Len(key) > 0
    /\ \A i \in 1..Len(key) : key[i] \in WordChars

\* re.sub(r'(\\|")', r'\\\1', key): a backslash before every backslash and
\* double quote.
QuoteKey(key) ==
    Join([i \in 1..Len(key) |->
            IF key[i] \in {"\\", "\""} THEN "\\" \o key[i] ELSE key[i]])

----------------------------------------------------------------------------
(* Walker objects.  cls is the class; index, key and referenced_keys are   *)
(* the attributes the subclasses add (unused ones keep a neutral value).   *)
(* parent = 0 stands for parent = None.                                    *)

Walker(root) ==
    [cls |-> "Walker", obj |-> root, parent |-> 0, custom_context |-> "",
     index |-> 0, key |-> <<>>, referenced_keys |-> {}]

WalkerInArray(obj, parent, index) ==
    [cls |-> "WalkerInArray", obj |-> obj, parent |-> parent,
     custom_context |-> "", index |-> index, key |-> <<>>,
     referenced_keys |-> {}]

WalkerInObject(obj, parent, key) ==
    [cls |-> "WalkerInObject", obj |-> obj, parent |-> parent,
     custom_context |-> "", index |-> 0, key |-> key, referenced_keys |-> {}]

ObjectWalker(obj, parent) ==
    [cls |-> "ObjectWalker", obj |-> obj, parent |-> parent,
     custom_context |-> "", index |-> 0, key |-> <<>>, referenced_keys |-> {}]

\* WalkerError(walker, msg).  id is the heap address of the walker, 0 for a
\* walker that was constructed only to raise the error.
WalkerError(id, walker, msg) == [id |-> id, walker |-> walker, msg |-> msg]

NoExc == [id |-> 0, walker |-> Walker(None), msg |-> ""]

\* Outcomes of a call: a returned value, or a raised WalkerError.
Return(val) == [out |-> "return", val |-> val, err |-> NoExc]
\* Walker.raise_error
raise_error(id, self, msg) ==
    [out |-> "raise", val |-> None, err |-> WalkerError(id, self, msg)]

is_int(self) == isinstance(self.obj, "int")

is_missing(self) == isinstance(self.obj, "missing")

\* Walker.as_type.  The parameter default is None when the caller passes
\* no default.
as_type(id, self, typ, msg, default) ==
    IF isinstance(self.obj, typ) THEN Return(self.obj)
    ELSE IF is_missing(self) THEN
        IF default = None THEN raise_error(id, self, "Mandatory key is missing")
        ELSE Return(default)
    ELSE raise_error(id, self, msg)

as_str(id, self, default) == as_type(id, self, "str", "Expected a string", default)

as_int(id, self, default) == as_type(id, self, "int", "Expected an integer", default)

as_bool(id, self, default) ==
    as_type(id, self, "bool", "Expected a Boolean value", default)

\* context() of Walker, WalkerInArray, WalkerInObject and ObjectWalker
context(self) ==
    CASE self.cls = "Walker" -> "root"
      [] self.cls = "WalkerInArray" -> "[" \o ToString(self.index) \o "]"
      [] self.cls = "WalkerInObject" ->
            IF FullMatchWord(self.key) THEN "." \o Join(self.key)
            ELSE ".\"" \o QuoteKey(self.key) \o "\""
      [] self.cls = "ObjectWalker" -> ""

RECURSIVE contexts(_)
\* The list WalkerError.__str__ collects, from the walker up to the root.
contexts(w) ==
    <<context(w), w.custom_context>>
        \o (IF w.parent = 0 THEN <<>> ELSE contexts(walkers[w.parent]))

\* A faulty rendering that joins the collected list without reversing it.
path_unreversed(w) == Join(contexts(w))

\* The path part of WalkerError.__str__
path(w) == Join(Reverse(contexts(w)))

\* WalkerError.__str__
WalkerError_str(err) == path(err.walker) \o ": " \o err.msg

----------------------------------------------------------------------------
(* The methods that produce or change walkers.                             *)

\* A faulty default_to that substitutes the default also when the walker is
\* not missing.
default_to_always(id, self, default) ==
    [ret |-> id, self |-> [self EXCEPT !.obj = default]]

\* Walker.default_to: the walker returned (self, as its heap address), and
\* the walker after the call.
default_to(id, self, default) ==
    [ret |-> id,
     self |-> IF is_missing(self) THEN [self EXCEPT !.obj = default] ELSE self]

\* Walker.set_custom_context: the walker after the call.
set_custom_context(self, ctx) == [self EXCEPT !.custom_context = ctx]

\* Walker.enter_object: the new ObjectWalker, or the error of as_type.
enter_object(id, self) ==
    LET dct == as_type(id, self, "dict", "Expected an object", None)
    IN  IF dct.out = "raise" THEN dct
        ELSE Return(ObjectWalker(dct.val, id))

\* ObjectWalker.__contains__: the result, and the walker after the call.
ObjectWalker_contains(self, key) ==
    [ret |-> HasKey(self.obj, key), self |-> self]

\* A faulty __getitem__ that records the key before it tests for it.
ObjectWalker_getitem_absent(id, self, key) ==
    [ret |-> WalkerInObject(IF HasKey(self.obj, key) THEN Lookup(self.obj, key)
                            ELSE MissingValue, id, key),
     self |-> [self EXCEPT !.referenced_keys = @ \cup {key}]]

\* ObjectWalker.__getitem__: the WalkerInObject returned, and the walker
\* after the call.
ObjectWalker_getitem(id, self, key) ==
    IF HasKey(self.obj, key) THEN
        [ret |-> WalkerInObject(Lookup(self.obj, key), id, key),
         self |-> [self EXCEPT !.referenced_keys = @ \cup {key}]]
    ELSE
        [ret |-> WalkerInObject(MissingValue, id, key), self |-> self]

\* WalkerInObject.unexpected
unexpected(self) == raise_error(0, self, "Unexpected key")

\* A faulty assert_no_other_keys that reports the last unreferenced key.
assert_no_other_keys_last(id, self) ==
    LET other == {i \in 1..Len(self.obj.keys) :
                    self.obj.keys[i] \notin self.referenced_keys}
    IN  IF other = {} THEN Return(None)
        ELSE LET i == CHOOSE j \in other : \A k \in other : j >= k
             IN  unexpected(WalkerInObject(self.obj.vals[i], id, self.obj.keys[i]))

\* ObjectWalker.assert_no_other_keys: the loop raises at the first item, in
\* the dict's order, whose key is not in referenced_keys.
assert_no_other_keys(id, self) ==
    LET other == {i \in 1..Len(self.obj.keys) :
                    self.obj.keys[i] \notin self.referenced_keys}
    IN  IF other = {} THEN Return(None)
        ELSE LET i == CHOOSE j \in other : \A k \in other : j <= k
             IN  unexpected(WalkerInObject(self.obj.vals[i], id, self.obj.keys[i]))

\* A faulty __exit__ that does not look at exc_type.
ObjectWalker_exit_always(id, self, exc_type_is_None) ==
    assert_no_other_keys(id, self)

\* ObjectWalker.__exit__: exc_type is None exactly when no exception is
\* propagating out of the block.
ObjectWalker_exit(id, self, exc_type_is_None) ==
    IF exc_type_is_None THEN assert_no_other_keys(id, self) ELSE Return(None)

----------------------------------------------------------------------------
(* Generators.  Calling array_values, object_values or object_items runs   *)
(* none of the function's body: it returns a generator object.  The body   *)
(* (the as_type check first, then the loop) runs inside next().            *)

Generator(fn, self) ==
    [fn |-> fn, self |-> self, state |-> "created", pos |-> 0, src |-> None,
     yielded |-> <<>>]

\* The as_type call that opens the body of the generator function fn.
gen_check(fn, id, self) ==
    IF fn = "array_values" THEN as_type(id, self, "list", "Expected an array", None)
    ELSE as_type(id, self, "dict", "Expected an object", None)

\* Number of iterations of the loop over src.
gen_len(fn, src) ==
    IF fn = "array_values" THEN Len(src.items) ELSE Len(src.keys)

\* A faulty loop body that counts the elements from 1.
gen_yield_shifted(fn, self_id, src, pos) ==
    IF fn = "array_values" THEN WalkerInArray(src.items[pos + 1], self_id, pos + 1)
    ELSE WalkerInObject(src.vals[pos + 1], self_id, src.keys[pos + 1])

\* The walker yielded by iteration number pos (from 0) of the loop of fn:
\* enumerate(ary) for array_values, dct.items() for the other two.
gen_yield(fn, self_id, src, pos) ==
    IF fn = "array_values" THEN WalkerInArray(src.items[pos + 1], self_id, pos)
    ELSE WalkerInObject(src.vals[pos + 1], self_id, src.keys[pos + 1])

----------------------------------------------------------------------------
(* Inputs: the trees a root walker is built over, the keys looked up, the  *)
(* default values and the annotations.                                     *)

k_one == <<"o", "n", "e">>
k_two == <<"t", "w", "o">>
k_three == <<"t", "h", "r", "e", "e">>
k_five == <<"f", "i", "v", "e">>
k_in == <<"i", "n">>
k_odd == <<"o", "d", "d", " ", "k", "e", "y">>
k_quote == <<"a", "\"", "\\">>

TestObject == DictV(<<k_one, k_two, k_three>>, <<IntV(1), StrV("dva"), BoolV(FALSE)>>)
TestArray == ListV(<<IntV(1), None>>)
ComplexTree == DictV(<<k_three>>, <<ListV(<<IntV(5), StrV("huiiii!")>>)>>)
NestedTree == DictV(<<k_odd, k_in>>, <<FloatV("1.5"), DictV(<<k_quote>>, <<None>>)>>)

Trees ==
    {TestObject, TestArray, ComplexTree, NestedTree,
     ListV(<<>>), IntV(42), StrV("forty-two"), BoolV(TRUE), FloatV("1.5"), None}

\* The keys a client looks up on an object: its own, and one it does not have.
LookupKeys(dct) == KeySet(dct) \cup {k_five}

\* The ways an extractor is called: without a default, with the default None
\* and with the default 4.
DefaultArgs ==
    {[supplied |-> FALSE, d |-> None], [supplied |-> TRUE, d |-> None],
     [supplied |-> TRUE, d |-> IntV(4)]}

\* Values passed to default_to.
Defaults == {IntV(4), ListV(<<>>)}

\* The annotation a client attaches to walker w: a text that names it.
Annotation(w) == "<" \o ToString(w) \o ">"

----------------------------------------------------------------------------
(* The state machine.                                                      *)

Call(op, self) ==
    [op |-> op, self |-> self, key |-> <<>>, arg |-> None, supplied |-> FALSE,
     out |-> "return", val |-> None, ref |-> 0, flag |-> FALSE]

\* No call has returned that the client has not yet gone on from.
Idle == Call("", 0)

Step(kind, index, key) == [kind |-> kind, index |-> index, key |-> key]

Ids == 1..Len(walkers)

ObjectWalkerIds == {w \in Ids : walkers[w].cls = "ObjectWalker"}

Init ==
    /\ \E tree \in Trees :
        /\ walkers = <<Walker(tree)>>
        /\ orig = <<tree>>
    /\ gens = <<>>
    /\ scopes = <<>>
    /\ pc = "ready"
    /\ exc = NoExc
    /\ rendered = ""
    /\ last = Idle
    /\ trail = << <<>> >>
    /\ lookups = << {} >>
    /\ defaults = << <<>> >>
    /\ unwound = <<>>

\* What every call does with its outcome r: the client gets the result, or
\* the raised error starts to propagate.
Outcome(r) ==
    /\ pc' = IF r.out = "raise" THEN "raising" ELSE "returned"
    /\ exc' = IF r.out = "raise" THEN r.err ELSE exc

\* A new walker w enters the heap, reached from its parent by step; heap and
\* looked are the walkers and the lookups as the call leaves them.
NewWalker(heap, looked, w, step) ==
    /\ walkers' = Append(heap, w)
    /\ orig' = Append(orig, w.obj)
    /\ trail' = Append(trail, Append(trail[w.parent], step))
    /\ lookups' = Append(looked, {})
    /\ defaults' = Append(defaults, <<>>)

\* w.is_int()
IsInt(w) ==
    /\ pc = "ready"
    /\ last' = [Call("is_int", w) EXCEPT !.flag = is_int(walkers[w])]
    /\ Outcome(Return(None))
    /\ UNCHANGED <<walkers, gens, scopes, rendered, trail, lookups, orig,
                   defaults, unwound>>

\* An extractor call with outcome r; the caller passed the default d iff supplied.
Extract(op, w, supplied, d, r) ==
    /\ pc = "ready"
    /\ last' = [Call(op, w) EXCEPT !.supplied = supplied,
                                   !.arg = IF supplied THEN d ELSE None,
                                   !.out = r.out, !.val = r.val]
    /\ Outcome(r)
    /\ UNCHANGED <<walkers, gens, scopes, rendered, trail, lookups, orig,
                   defaults, unwound>>

\* w.as_str() and w.as_str(d)
AsStr(w, supplied, d) ==
    Extract("as_str", w, supplied, d,
            as_str(w, walkers[w], IF supplied THEN d ELSE None))

\* w.as_int() and w.as_int(d)
AsInt(w, supplied, d) ==
    Extract("as_int", w, supplied, d,
            as_int(w, walkers[w], IF supplied THEN d ELSE None))

\* w.as_bool() and w.as_bool(d)
AsBool(w, supplied, d) ==
    Extract("as_bool", w, supplied, d,
            as_bool(w, walkers[w], IF supplied THEN d ELSE None))

\* w.array_values(), w.object_values(), w.object_items(): a generator
\* object is returned; nothing of the body has run yet.
CallGenerator(fn, w) ==
    /\ pc = "ready"
    /\ Len(gens) < MaxGens
    /\ gens' = Append(gens, Generator(fn, w))
    /\ last' = [Call(fn, w) EXCEPT !.ref = Len(gens) + 1]
    /\ Outcome(Return(None))
    /\ UNCHANGED <<walkers, scopes, rendered, trail, lookups, orig, defaults,
                   unwound>>

ArrayValues(w) == CallGenerator("array_values", w)

ObjectValues(w) == CallGenerator("object_values", w)

ObjectItems(w) == CallGenerator("object_items", w)

\* next(g), as a for loop calls it: the body runs to its next yield, to its
\* end (StopIteration) or to the error as_type raises.
GenNext(g) ==
    LET G == gens[g]
        chk == IF G.state = "created"
               THEN gen_check(G.fn, G.self, walkers[G.self])
               ELSE Return(G.src)
        src == chk.val
    IN  /\ pc = "ready"
        /\ G.state # "done"
        /\ IF chk.out = "raise" THEN
                /\ gens' = [gens EXCEPT ![g].state = "done"]
                /\ last' = [Call("next", G.self) EXCEPT !.ref = g, !.out = "raise"]
                /\ UNCHANGED <<walkers, trail, lookups, orig, defaults>>
           ELSE IF G.pos < gen_len(G.fn, src) THEN
                LET child == gen_yield(G.fn, G.self, src, G.pos)
                IN  /\ Len(walkers) < MaxWalkers
                    /\ NewWalker(walkers, lookups, child,
                                 IF G.fn = "array_values"
                                 THEN Step("index", G.pos, <<>>)
                                 ELSE Step("key", 0, src.keys[G.pos + 1]))
                    /\ gens' = [gens EXCEPT ![g].state = "running",
                                            ![g].src = src,
                                            ![g].pos = G.pos + 1,
                                            ![g].yielded = Append(@, Len(walkers) + 1)]
                    /\ last' = [Call("next", G.self) EXCEPT
                                    !.ref = Len(walkers) + 1,
                                    !.key = IF G.fn = "object_items"
                                            THEN child.key ELSE <<>>]
           ELSE
                /\ gens' = [gens EXCEPT ![g].state = "done", ![g].src = src]
                /\ last' = [Call("next", G.self) EXCEPT !.ref = g, !.out = "stop"]
                /\ UNCHANGED <<walkers, trail, lookups, orig, defaults>>
        /\ Outcome(chk)
        /\ UNCHANGED <<scopes, rendered, unwound>>

\* w.enter_object()
EnterObject(w) ==
    LET r == enter_object(w, walkers[w])
    IN  /\ pc = "ready"
        /\ IF r.out = "raise" THEN
                /\ last' = [Call("enter_object", w) EXCEPT !.out = "raise"]
                /\ UNCHANGED <<walkers, trail, lookups, orig, defaults>>
           ELSE
                /\ Len(walkers) < MaxWalkers
                /\ NewWalker(walkers, lookups, r.val, Step("enter", 0, <<>>))
                /\ last' = [Call("enter_object", w) EXCEPT !.ref = Len(walkers) + 1]
        /\ Outcome(r)
        /\ UNCHANGED <<gens, scopes, rendered, unwound>>

\* `with w as ...:` is entered: ObjectWalker.__enter__ returns w itself.
WithEnter(w) ==
    /\ pc = "ready"
    /\ walkers[w].cls = "ObjectWalker"
    /\ \A i \in 1..Len(scopes) : scopes[i] # w
    /\ scopes' = Append(scopes, w)
    /\ last' = [Call("__enter__", w) EXCEPT !.ref = w]
    /\ Outcome(Return(None))
    /\ UNCHANGED <<walkers, gens, rendered, trail, lookups, orig, defaults,
                   unwound>>

\* The body of the innermost `with` block ends normally: __exit__(None, None, None).
WithExit ==
    /\ pc = "ready"
    /\ scopes # <<>>
    /\ LET w == scopes[Len(scopes)]
           r == ObjectWalker_exit(w, walkers[w], TRUE)
       IN  /\ last' = [Call("__exit__", w) EXCEPT !.out = r.out]
           /\ Outcome(r)
    /\ scopes' = SubSeq(scopes, 1, Len(scopes) - 1)
    /\ UNCHANGED <<walkers, gens, rendered, trail, lookups, orig, defaults,
                   unwound>>

\* An error leaves the innermost `with` block: __exit__ is called with the
\* exception; it returns None, so the exception goes on, unless __exit__
\* itself raises, which replaces it.
Unwind ==
    /\ pc = "raising"
    /\ scopes # <<>>
    /\ LET w == scopes[Len(scopes)]
           r == ObjectWalker_exit(w, walkers[w], FALSE)
       IN  /\ exc' = IF r.out = "raise" THEN r.err ELSE exc
           /\ unwound' = Append(unwound, w)
    /\ scopes' = SubSeq(scopes, 1, Len(scopes) - 1)
    /\ UNCHANGED <<walkers, gens, pc, rendered, last, trail, lookups, orig,
                   defaults>>

\* The error reaches the top-level handler, which renders it: str(err).
Catch ==
    /\ pc = "raising"
    /\ scopes = <<>>
    /\ rendered' = WalkerError_str(exc)
    /\ pc' = "caught"
    /\ UNCHANGED <<walkers, gens, scopes, exc, last, trail, lookups, orig,
                   defaults, unwound>>

\* w[key]
GetItem(w, key) ==
    LET r == ObjectWalker_getitem(w, walkers[w], key)
    IN  /\ pc = "ready"
        /\ walkers[w].cls = "ObjectWalker"
        /\ Len(walkers) < MaxWalkers
        /\ NewWalker([walkers EXCEPT ![w] = r.self],
                     [lookups EXCEPT ![w] = @ \cup {key}],
                     r.ret, Step("key", 0, key))
        /\ last' = [Call("__getitem__", w) EXCEPT !.key = key,
                                                  !.ref = Len(walkers) + 1]
        /\ Outcome(Return(None))
        /\ UNCHANGED <<gens, scopes, rendered, unwound>>

\* key in w
Contains(w, key) ==
    LET r == ObjectWalker_contains(walkers[w], key)
    IN  /\ pc = "ready"
        /\ walkers[w].cls = "ObjectWalker"
        /\ walkers' = [walkers EXCEPT ![w] = r.self]
        /\ last' = [Call("__contains__", w) EXCEPT !.key = key, !.flag = r.ret]
        /\ Outcome(Return(None))
        /\ UNCHANGED <<gens, scopes, rendered, trail, lookups, orig, defaults,
                       unwound>>

\* w.default_to(d)
DefaultTo(w, d) ==
    LET r == default_to(w, walkers[w], d)
    IN  /\ pc = "ready"
        /\ Len(defaults[w]) < MaxDefaultTo
        /\ walkers' = [walkers EXCEPT ![w] = r.self]
        /\ defaults' = [defaults EXCEPT ![w] =
                            IF orig[w] = MissingValue THEN Append(@, d) ELSE @]
        /\ last' = [Call("default_to", w) EXCEPT !.arg = d, !.ref = r.ret]
        /\ Outcome(Return(None))
        /\ UNCHANGED <<gens, scopes, rendered, trail, lookups, orig, unwound>>

\* w.set_custom_context(ctx)
SetCustomContext(w, ctx) ==
    /\ pc = "ready"
    /\ walkers[w].custom_context = ""
    /\ Cardinality({v \in Ids : walkers[v].custom_context # ""}) < MaxAnnotations
    /\ walkers' = [walkers EXCEPT ![w] = set_custom_context(walkers[w], ctx)]
    /\ last' = Call("set_custom_context", w)
    /\ Outcome(Return(None))
    /\ UNCHANGED <<gens, scopes, rendered, trail, lookups, orig, defaults,
                   unwound>>

\* The client goes on from the call that returned to its next statement; a
\* for loop whose generator is exhausted has ended, and drops the generator.
Resume ==
    /\ pc = "returned"
    /\ pc' = "ready"
    /\ last' = Idle
    /\ gens' = SelectSeq(gens, LAMBDA G : G.state # "done")
    /\ UNCHANGED <<walkers, scopes, exc, rendered, trail, lookups, orig,
                   defaults, unwound>>

\* A client that inspects objects: it enters them, with or without a `with`
\* block, looks keys up, substitutes defaults, annotates walkers and extracts
\* without a default.
Next ==
    \/ \E w \in Ids : AsStr(w, FALSE, None)
    \/ \E w \in Ids : AsInt(w, FALSE, None)
    \/ \E w \in Ids : EnterObject(w)
    \/ \E w \in ObjectWalkerIds : WithEnter(w)
    \/ WithExit
    \/ Unwind
    \/ Catch
    \/ \E w \in ObjectWalkerIds : \E key \in LookupKeys(walkers[w].obj) : GetItem(w, key)
    \/ \E w \in ObjectWalkerIds : \E key \in LookupKeys(walkers[w].obj) : Contains(w, key)
    \/ \E w \in Ids, d \in Defaults : DefaultTo(w, d)
    \/ \E w \in Ids : SetCustomContext(w, Annotation(w))
    \/ Resume

Spec == Init /\ [][Next]_vars

\* A client that walks a tree: it iterates over arrays and objects, enters
\* objects and looks keys up, and extracts without a default.
NextWalk ==
    \/ \E w \in Ids : AsStr(w, FALSE, None)
    \/ \E w \in Ids : AsInt(w, FALSE, None)
    \/ \E w \in Ids : ArrayValues(w)
    \/ \E w \in Ids : ObjectValues(w)
    \/ \E w \in Ids : ObjectItems(w)
    \/ \E g \in 1..Len(gens) : GenNext(g)
    \/ \E w \in Ids : EnterObject(w)
    \/ \E w \in ObjectWalkerIds : \E key \in LookupKeys(walkers[w].obj) : GetItem(w, key)
    \/ Catch
    \/ Resume

SpecWalk == Init /\ [][NextWalk]_vars

\* A client that extracts values: it reaches the attributes of objects by
\* key, substitutes defaults, tests and extracts with every kind of default.
NextExtract ==
    \/ \E w \in Ids : IsInt(w)
    \/ \E w \in Ids, a \in DefaultArgs : AsStr(w, a.supplied, a.d)
    \/ \E w \in Ids, a \in DefaultArgs : AsInt(w, a.supplied, a.d)
    \/ \E w \in Ids, a \in DefaultArgs : AsBool(w, a.supplied, a.d)
    \/ \E w \in Ids : EnterObject(w)
    \/ \E w \in ObjectWalkerIds : \E key \in LookupKeys(walkers[w].obj) : GetItem(w, key)
    \/ \E w \in Ids, d \in Defaults : DefaultTo(w, d)
    \/ Catch
    \/ Resume

SpecExtract == Init /\ [][NextExtract]_vars

----------------------------------------------------------------------------
(* Properties.                                                             *)

\* The path fragment of an attribute step as the specification words it
\* (section 4.3): .key for a key of word characters, otherwise the key in
\* double quotes with backslash and double quote escaped.
KeyFragment(key) ==
    IF key # <<>> /\ \A i \in 1..Len(key) : key[i] \in WordChars
    THEN "." \o Join(key)
    ELSE "." \o "\"" \o
         Join([i \in 1..Len(key) |->
                 IF key[i] = "\\" THEN "\\\\"
                 ELSE IF key[i] = "\"" THEN "\\\"" ELSE key[i]])
         \o "\""

\* The positions of the keys of dct that are not in the set looked.
NotIn(dct, looked) == {i \in 1..Len(dct.keys) : dct.keys[i] \notin looked}

Least(S) == CHOOSE i \in S : \A j \in S : i <= j

\* C1: a normal exit of an object-inspection scope raises 'Unexpected key'
\* iff some key of the object was never looked up with w[key]; the error is
\* attached to the first such key in the object's order, and its text is the
\* object's path, that key's fragment and ': Unexpected key'.  If every key
\* was looked up, the exit raises nothing.
C1_NormalExitReportsFirstUnreferencedKey ==
    last.op = "__exit__" =>
        LET w == last.self
            dct == walkers[w].obj
            other == NotIn(dct, lookups[w])
        IN  /\ (last.out = "raise") <=> (other # {})
            /\ last.out = "return" => pc # "raising" /\ exc = NoExc
            /\ last.out = "raise" =>
                LET i == Least(other)
                IN  /\ exc.msg = "Unexpected key"
                    /\ exc.walker.cls = "WalkerInObject"
                    /\ exc.walker.key = dct.keys[i]
                    /\ exc.walker.obj = dct.vals[i]
                    /\ exc.walker.parent = w
                    /\ pc = "caught" =>
                        rendered = path(walkers[w]) \o KeyFragment(dct.keys[i])
                                       \o ": Unexpected key"

\* C1 witness: over {"one": 1, "two": "dva", "three": false} only 'one' was
\* looked up, the scope ended normally and the error names 'two'.
C1_Witness ==
    /\ pc = "caught"
    /\ last.op = "__exit__"
    /\ lookups[last.self] = {k_one}
    /\ rendered = "root.two: Unexpected key"

\* C2: an error raised in the body of an object-inspection scope leaves the
\* scope unchanged: the exit does not run assert_no_other_keys, so the error
\* of a call other than the exit is never 'Unexpected key', and no exit of a
\* scope replaces the error that is propagating.
C2_BodyErrorIsNotMasked ==
    /\ [](pc \in {"raising", "caught"} /\ last.op # "__exit__"
            => exc.msg # "Unexpected key")
    /\ [][pc = "raising" => exc' = exc]_vars

\* C2 witness: in a scope over {"one": 1, "two": "dva", "three": false} the
\* absent key 'five' was extracted with as_int(); the scope was left by the
\* error, no key of the object had been looked up, and the text names 'five'.
C2_Witness ==
    /\ pc = "caught"
    /\ unwound # <<>>
    /\ walkers[unwound[1]].obj = TestObject
    /\ walkers[unwound[1]].referenced_keys = {}
    /\ last.op = "as_int"
    /\ rendered = "root.five: Mandatory key is missing"

\* The target type and the message of an extractor.
ExtractorType(op) ==
    CASE op = "as_str" -> "str" [] op = "as_int" -> "int" [] op = "as_bool" -> "bool"

ExtractorMsg(op) ==
    CASE op = "as_str" -> "Expected a string"
      [] op = "as_int" -> "Expected an integer"
      [] op = "as_bool" -> "Expected a Boolean value"

\* C3: as_str, as_int and as_bool return a value of the target type as it
\* is; on a missing cursor they return the supplied default whenever one was
\* supplied, whatever its value (None included), and raise 'Mandatory key is
\* missing' only when none was supplied; on a present value of another type
\* they raise the extractor's message.
C3_ExtractorsFollowContract ==
    last.op \in {"as_str", "as_int", "as_bool"} =>
        LET self == walkers[last.self]
        IN  IF isinstance(self.obj, ExtractorType(last.op)) THEN
                last.out = "return" /\ last.val = self.obj
            ELSE IF self.obj = MissingValue THEN
                IF last.supplied THEN last.out = "return" /\ last.val = last.arg
                ELSE /\ last.out = "raise"
                     /\ exc.msg = "Mandatory key is missing"
            ELSE /\ last.out = "raise"
                 /\ exc.msg = ExtractorMsg(last.op)

\* C4: on a present value that is not an integer (a string, a float, a
\* Boolean, null, an array, an object) is_int() is false and as_int() raises
\* 'Expected an integer'; on an integer n is_int() is true and as_int()
\* returns n.
C4_OnlyIntegersAreIntegers ==
    LET self == walkers[last.self]
    IN  /\ last.op = "is_int" /\ self.obj # MissingValue =>
            (last.flag <=> self.obj.kind = "int")
        /\ last.op = "as_int" /\ self.obj # MissingValue =>
            IF self.obj.kind = "int"
            THEN last.out = "return" /\ last.val = self.obj
            ELSE last.out = "raise" /\ exc.msg = "Expected an integer"

RECURSIVE FragmentThenAnnotation(_)
\* Root first: the fragment of each cursor, then its annotation.
FragmentThenAnnotation(w) ==
    (IF w.parent = 0 THEN "" ELSE FragmentThenAnnotation(walkers[w.parent]))
        \o context(w) \o w.custom_context

\* C5: in the text of an error, the annotation of every cursor on the chain
\* from the root to the triggering cursor comes immediately after that
\* cursor's own path fragment, root first, never before it.
C5_AnnotationFollowsFragment ==
    pc = "caught" =>
        rendered = FragmentThenAnnotation(exc.walker) \o ": " \o exc.msg

\* The fragment of a traversal step as the claim words it: [i] for an array
\* step, .key for an attribute step, nothing for an enter_object step.
PlainFragment(step) ==
    CASE step.kind = "index" -> "[" \o ToString(step.index) \o "]"
      [] step.kind = "key" -> "." \o Join(step.key)
      [] step.kind = "enter" -> ""

\* The same, with the attribute step rendered as section 4.3 has it.
StepFragment(step) ==
    CASE step.kind = "index" -> "[" \o ToString(step.index) \o "]"
      [] step.kind = "key" -> KeyFragment(step.key)
      [] step.kind = "enter" -> ""

RequiredType(fn) == IF fn = "array_values" THEN "list" ELSE "dict"

\* C7: array_values(), object_values() and object_items() on a cursor whose
\* value is not of the required kind raise at the call: the call fails and
\* returns no sequence.
C7_IterationFailsAtTheCall ==
    /\ last.op \in {"array_values", "object_values", "object_items"}
    /\ ~isinstance(walkers[last.self].obj, RequiredType(last.op))
    => last.out = "raise" /\ pc # "returned"

\* C8: default_to(x) leaves the value of a cursor that is not missing as it
\* was; on a cursor constructed missing, the first default_to(x) decides the
\* value, whatever calls follow; the call returns the cursor it was called on.
C8_DefaultToIsIdempotent ==
    /\ \A w \in Ids :
        walkers[w].obj =
            IF orig[w] # MissingValue THEN orig[w]
            ELSE IF defaults[w] = <<>> THEN MissingValue
            ELSE defaults[w][1]
    /\ last.op = "default_to" => last.ref = last.self

\* C8 witness: default_to(x), then default_to(y) with y # x, on a cursor
\* constructed missing, which holds x.
C8_Witness ==
    /\ last.op = "default_to"
    /\ orig[last.self] = MissingValue
    /\ Len(defaults[last.self]) = 2
    /\ defaults[last.self][2] # defaults[last.self][1]
    /\ last.arg = defaults[last.self][2]
    /\ walkers[last.self].obj = defaults[last.self][1]

\* The walker that iteration number i (from 1) over the container src of
\* cursor p has to yield.
IsChild(c, fn, p, src, i) ==
    /\ c.parent = p
    /\ c.custom_context = ""
    /\ IF fn = "array_values"
       THEN c.cls = "WalkerInArray" /\ c.index = i - 1 /\ c.obj = src.items[i]
       ELSE c.cls = "WalkerInObject" /\ c.key = src.keys[i] /\ c.obj = src.vals[i]

\* C9: a generator yields, in the container's order, one cursor per element
\* (attribute), holding it, carrying its index (key, which object_items also
\* yields) and having the producing cursor as parent; it ends after exactly
\* as many cursors as the container has elements; every call yields new
\* cursors, with the same contents.
C9_IterationReproducesContainer ==
    /\ \A g \in 1..Len(gens) :
        LET G == gens[g]
            src == walkers[G.self].obj
            n == IF G.fn = "array_values" THEN Len(src.items) ELSE Len(src.keys)
            stopped == G.state = "done" /\ last.out = "stop" /\ last.ref = g
        IN  G.state = "running" \/ stopped =>
                /\ isinstance(src, RequiredType(G.fn))
                /\ Len(G.yielded) <= n
                /\ stopped => Len(G.yielded) = n
                /\ \A i \in 1..Len(G.yielded) :
                    /\ IsChild(walkers[G.yielded[i]], G.fn, G.self, src, i)
                    /\ \A j \in 1..Len(G.yielded) : i # j => G.yielded[i] # G.yielded[j]
                    /\ \A h \in 1..Len(gens) :
                        h # g => \A j \in 1..Len(gens[h].yielded) :
                                    gens[h].yielded[j] # G.yielded[i]
                /\ last.op = "next" /\ last.out = "return" /\ G.yielded # <<>>
                     /\ last.ref = G.yielded[Len(G.yielded)] =>
                        last.key = IF G.fn = "object_items"
                                   THEN src.keys[Len(G.yielded)] ELSE <<>>
    /\ last.op = "next" /\ last.out = "return" =>
        last.ref = Len(walkers) /\ walkers[last.ref].parent = last.self

\* C9 witness: array_values() over [1, null] has yielded two cursors and ended.
C9_Witness ==
    \E g \in 1..Len(gens) :
        /\ gens[g].fn = "array_values"
        /\ gens[g].state = "done"
        /\ last.out = "stop"
        /\ walkers[gens[g].self].obj = TestArray
        /\ Len(gens[g].yielded) = 2

====
